---- MODULE Spec2Model ----
(***************************************************************************)
(* State-machine models of the call-admission wrappers of the repository:  *)
(* the circuit breaker, the token-bucket throttle, the three debounce      *)
(* variants, retry and the two timeouts, and of the fan-in Funnel.  Every  *)
(* wrapper instance owns its private state, so each                        *)
(* wrapper has a specification of its own (SpecBreaker, SpecThrottle, ...) *)
(* in which the variables of the other wrappers stay at their initial      *)
(* values.                                                                 *)
(*                                                                         *)
(* Time is a discrete clock counted in seconds since the instance was      *)
(* built; an action that reads time.Now() reads the clock variable of its  *)
(* wrapper.                                                                *)
(***************************************************************************)
EXTENDS Integers, Sequences, FiniteSets, TLC

VARIABLES
    \* ---- Breaker (circuit_breaker.go:24-67) ----
    bThreshold,   \* parameter threshold
    failures,     \* var failures int
    last,         \* var last time.Time, in seconds of the model clock
    attempted,    \* FALSE while last still holds the zero time.Time
    calling,      \* number of callers that are inside circuit(ctx)
    bNow,         \* the clock read by time.Now()
    bEvent,       \* kind of the step taken last
    \* ---- Throttle (throttle.go:19-63) ----
    tMax,         \* parameter max
    tRefill,      \* parameter refill
    tokens,       \* tokens
    onceDone,     \* sync.Once has run its function
    tWaiting,     \* number of callers that passed once.Do and wait at mu.Lock
    tBusy,        \* a caller holds mu and is inside effector(ctx)
    cancelled,    \* the contexts whose Done channel is closed
    loop,         \* refill goroutine: "none", "select", "refill", "stopped"
    loopCtx,      \* the context the refill goroutine selects on (0: none)
    tickReady,    \* ticker.C holds a tick (the channel buffers one)
    loopsStarted, \* number of refill goroutines started so far
    spanAdmitted, \* calls admitted since the observed span began
    spanTicks,    \* refills applied since the observed span began
    tLastCtx,     \* context of the call made by the last step (0: no call)
    tEvent,       \* kind of the step taken last
    \* ---- DebounceFirst (circuit_breaker.go:86-109) ----
    dfWindow,     \* parameter d, in seconds
    dfThreshold,  \* threshold; 0 stands for the zero time.Time
    dfResult,     \* the cached <<result, err>>
    dfRunning,    \* a call holds mu and is inside circuit(ctx)
    dfStart,      \* the time.Now() of line 98 read by the running call
    dfNow,        \* the clock read by time.Now()
    dfCalls,      \* the calls that returned, in the order they held mu
    \* ---- DebounceFirstContext (circuit_breaker.go:114-140) ----
    dcWindow,     \* parameter d, in seconds
    dcThreshold,  \* threshold; 0 stands for the zero time.Time
    dcLastCtx,    \* lastCtx and lastCancel: the call they were derived for (0: nil)
    dcCancelled,  \* the calls whose derived context is done
    dcCalls,      \* number of calls made so far
    dcPc,         \* per call: "none", "unlocked", "running", "returned"
    dcCtxUsed,    \* per call: the context its circuit(lastCtx) received
    dcNow,        \* the clock read by time.Now()
    \* ---- DebounceLast (circuit_breaker.go:147-189) ----
    dlWindow,     \* parameter d, in seconds
    dlTimer,      \* timer: the call that created it (0: nil)
    dlCctx,       \* cctx and cancel: the call they were derived for (0: nil)
    dlCancelled,  \* the calls whose derived context is done
    dlCalls,      \* number of calls made so far
    dlAt,         \* per call: the clock when it held mu
    dlTimerState, \* per call: "none", "armed", "stopped", "fired", "running", "done"
    dlCtxUsed,    \* per call: the context its timer function passed to circuit
    dlPc,         \* per call: "none", "unlocked", "select", "returned"
    dlWaitCtx,    \* per call: the context whose Done() its select waits on
    dlRet,        \* per call: what it returned
    dlNow,        \* the clock
    \* ---- Retry (circuit_breaker.go:209-220) ----
    rMax,         \* parameter maxRetries
    rPlan,        \* the operation: outcome of its i-th invocation
    rHonors,      \* the operation returns ctx.Err() when it sees ctx done
    rLoop,        \* loop variable r
    rPc,          \* the call: "idle", "calling", "got", "returned"
    rInvoked,     \* number of invocations of the operation so far
    rLast,        \* <<response, err>> of the last invocation
    rRet,         \* <<response, err>> the wrapper returned
    rCancelled,   \* the context of the call is done
    rLate,        \* invocations begun after the context was done
    \* ---- Timeout, TimeoutWithPrecheck (part_002:18-78) ----
    toPrecheck,   \* the wrapper is TimeoutWithPrecheck
    toExpired,    \* ctx is done
    toD,          \* the clock when ctx became done
    toWorker,     \* the goroutine: "none", "running", "posting", "done"
    toRes,        \* what fn(arg) returned
    toT,          \* the clock when fn(arg) returned
    toCh,         \* the buffer of ch (capacity 1)
    toPc,         \* the call: "idle", "select", "returned"
    toRet,        \* what the wrapper returned
    toLive,       \* ctx.Err() was nil when the call began
    toPosts,      \* number of values sent on ch
    toNow,        \* the clock
    \* ---- Funnel (part_000:19-43) ----
    fN,           \* len(sources)
    fPlan,        \* per source: how many values its producer sends
    fSent,        \* per source: values handed to the forwarder so far
    fSrcClosed,   \* per source: the producer closed it
    fCalled,      \* Funnel has been called
    fFwd,         \* per source, the forwarder: "none", "range", "send", "done"
    fHeld,        \* per source: the value n its forwarder is sending
    fWg,          \* the counter of wg
    fCloser,      \* per source, the closer: "none", "wait", "done", "panicked"
    fDestClosed,  \* dest is closed
    fCloses,      \* number of close(dest) executed
    fPanicked,    \* a goroutine panicked: the program is gone
    fOut          \* per source: its values received from dest, in order

bvars == <<bThreshold, failures, last, attempted, calling, bNow, bEvent>>

tvars == <<tMax, tRefill, tokens, onceDone, tWaiting, tBusy, cancelled, loop, loopCtx,
           tickReady, loopsStarted, spanAdmitted, spanTicks, tLastCtx, tEvent>>

dfvars == <<dfWindow, dfThreshold, dfResult, dfRunning, dfStart, dfNow, dfCalls>>

dcvars == <<dcWindow, dcThreshold, dcLastCtx, dcCancelled, dcCalls, dcPc, dcCtxUsed,
            dcNow>>

dlvars == <<dlWindow, dlTimer, dlCctx, dlCancelled, dlCalls, dlAt, dlTimerState,
            dlCtxUsed, dlPc, dlWaitCtx, dlRet, dlNow>>

rvars == <<rMax, rPlan, rHonors, rLoop, rPc, rInvoked, rLast, rRet, rCancelled, rLate>>

tovars == <<toPrecheck, toExpired, toD, toWorker, toRes, toT, toCh, toPc, toRet,
            toLive, toPosts, toNow>>

fvars == <<fN, fPlan, fSent, fSrcClosed, fCalled, fFwd, fHeld, fWg, fCloser,
           fDestClosed, fCloses, fPanicked, fOut>>

vars == <<bvars, tvars, dfvars, dcvars, dlvars, rvars, tovars, fvars>>

\* what the actions of one wrapper leave alone
bOthers == <<tvars, dfvars, dcvars, dlvars, rvars, tovars, fvars>>
tOthers == <<bvars, dfvars, dcvars, dlvars, rvars, tovars, fvars>>
dfOthers == <<bvars, tvars, dcvars, dlvars, rvars, tovars, fvars>>
dcOthers == <<bvars, tvars, dfvars, dlvars, rvars, tovars, fvars>>
dlOthers == <<bvars, tvars, dfvars, dcvars, rvars, tovars, fvars>>
rOthers == <<bvars, tvars, dfvars, dcvars, dlvars, tovars, fvars>>
toOthers == <<bvars, tvars, dfvars, dcvars, dlvars, rvars, fvars>>
fOthers == <<bvars, tvars, dfvars, dcvars, dlvars, rvars, tovars>>

(***************************************************************************)
(* Bounds of the model.                                                    *)
(***************************************************************************)
MaxThreshold == 2
MaxInFlight == 35
MaxFailures == 36
MaxTime == 3
MaxCap == 2
MaxRefill == 2
NumCallers == 2
NumCtx == 2
MaxSpanTicks == 1
MaxWindow == 2
MaxCalls == 3
MaxRetries == 3
MaxSources == 2
MaxValues == 2

(***************************************************************************)
(* 64-bit two's-complement words (Go's int64, time.Duration), held as four *)
(* 16-bit limbs, least significant first.                                  *)
(***************************************************************************)
Limb == 2^16

WordOfNat(n) == <<n % Limb, (n \div Limb) % Limb, 0, 0>>

\* w * k modulo 2^64, for 0 <= k <= 2^15
MulSmall(w, k) ==
    LET p1 == w[1] * k
        p2 == w[2] * k + (p1 \div Limb)
        p3 == w[3] * k + (p2 \div Limb)
        p4 == w[4] * k + (p3 \div Limb)
    IN  <<p1 % Limb, p2 % Limb, p3 % Limb, p4 % Limb>>

\* w << n on an int64: the bits shifted out are lost, n >= 64 leaves 0.
\* Sixteen places move every limb up by one; fewer than sixteen multiply.
RECURSIVE ShlWord(_, _)
ShlWord(w, n) ==
    IF n >= 64 THEN <<0, 0, 0, 0>>
    ELSE IF n >= 16 THEN ShlWord(<<0, w[1], w[2], w[3]>>, n - 16)
    ELSE MulSmall(w, 2^n)

\* the sign bit
IsNegative(w) == w[4] >= Limb \div 2

\* a <= b for two non-negative words
LeqWord(a, b) ==
    \/ a[4] < b[4]
    \/ a[4] = b[4] /\ a[3] < b[3]
    \/ a[4] = b[4] /\ a[3] = b[3] /\ a[2] < b[2]
    \/ a[4] = b[4] /\ a[3] = b[3] /\ a[2] = b[2] /\ a[1] <= b[1]

\* w * time.Second modulo 2^64; 10^9 = 1000 * 1000 * 1000 and the
\* multiplication modulo 2^64 is associative
MulSecond(w) == MulSmall(MulSmall(MulSmall(w, 1000), 1000), 1000)

\* a whole number of seconds as a time.Duration (nanoseconds)
SecondsWord(s) == MulSecond(WordOfNat(s))

(***************************************************************************)
(* Breaker                                                                 *)
(***************************************************************************)

\* (2 << d) * time.Second, the untyped 2 taking the type time.Duration
Cooldown(d) == MulSecond(ShlWord(WordOfNat(2), d))

CooldownTable == [d \in 0..(MaxFailures + 1) |-> Cooldown(d)]

\* !time.Now().After(last.Add(c)) for a duration c: the zero time.Time plus
\* any duration lies centuries before the clock
NotAfter(now, lst, att, c) ==
    /\ att
    /\ ~IsNegative(c)
    /\ LeqWord(SecondsWord(now - lst), c)

\* a slip of line 36: the circuit trips one failure late
BreakerOpenLate(f, th, now, lst, att) ==
    LET d == f - th
    IN  d > 0 /\ NotAfter(now, lst, att, CooldownTable[d])

\* the admission check made under the read lock: TRUE when the call is
\* turned away with ErrServiceUnavailable
BreakerOpen(f, th, now, lst, att) ==
    LET d == f - th
    IN  d >= 0 /\ NotAfter(now, lst, att, CooldownTable[d])

\* a slip of lines 57-63: the success branch leaves the count alone
NextFailuresNoReset(f, ok) == IF ok THEN f ELSE f + 1

\* lines 57-63: failures after circuit(ctx) returned
NextFailures(f, ok) == IF ok THEN 0 ELSE f + 1

BreakerInit ==
    /\ bThreshold \in 1..MaxThreshold
    /\ failures = 0
    /\ last = 0
    /\ attempted = FALSE
    /\ calling = 0
    /\ bNow = 0
    /\ bEvent = "init"

\* lines 33-44: the circuit is open, the call returns ErrServiceUnavailable
BreakerReject ==
    /\ BreakerOpen(failures, bThreshold, bNow, last, attempted)
    /\ bEvent' = "reject"
    /\ UNCHANGED <<bThreshold, failures, last, attempted, calling, bNow>>
    /\ UNCHANGED bOthers

\* lines 33-50: the check lets the call through and circuit(ctx) is entered
BreakerAdmit ==
    /\ ~BreakerOpen(failures, bThreshold, bNow, last, attempted)
    /\ calling < MaxInFlight
    /\ calling' = calling + 1
    /\ bEvent' = "admit"
    /\ UNCHANGED <<bThreshold, failures, last, attempted, bNow>>
    /\ UNCHANGED bOthers

\* lines 50-65: circuit(ctx) returns and the write lock section runs
BreakerComplete(ok) ==
    /\ calling > 0
    /\ ok \/ failures < MaxFailures
    /\ calling' = calling - 1
    /\ last' = bNow
    /\ attempted' = TRUE
    /\ failures' = NextFailures(failures, ok)
    /\ bEvent' = IF ok THEN "ok" ELSE "fail"
    /\ UNCHANGED <<bThreshold, bNow>>
    /\ UNCHANGED bOthers

BreakerTick ==
    /\ bNow < MaxTime
    /\ bNow' = bNow + 1
    /\ bEvent' = "tick"
    /\ UNCHANGED <<bThreshold, failures, last, attempted, calling>>
    /\ UNCHANGED bOthers

BreakerNext ==
    \/ BreakerReject
    \/ BreakerAdmit
    \/ \E ok \in BOOLEAN : BreakerComplete(ok)
    \/ BreakerTick

(***************************************************************************)
(* Throttle                                                                *)
(*                                                                         *)
(* tokens, max and refill are Go uints.  The decrement is guarded by       *)
(* tokens > 0 and, for the refill amounts of the model, tokens + refill    *)
(* stays far below 2^64, so no operation of the model wraps.               *)
(***************************************************************************)
Ctxs == 1..NumCtx

Min(a, b) == IF a <= b THEN a ELSE b

\* a slip of line 44: the sum is not capped
RefilledUncapped(t, r, m) == t + r

\* line 44: t := min(tokens+refill, max)
Refilled(t, r, m) == Min(t + r, m)

\* a slip of line 55: the check is skipped
BucketNeverEmpty(t) == FALSE

\* line 55: if tokens <= 0
BucketEmpty(t) == t <= 0

\* line 59: tokens--
Consume(t) == t - 1

\* a slip of line 32: a plain function call where once.Do stood
OnceFiresAlways(done) == TRUE

\* line 32: once.Do runs its function for the first caller only
OnceFires(done) == ~done

\* a slip of line 27: the check is missing
CtxErrIgnored(x, done) == FALSE

\* line 27: ctx.Err() != nil
CtxErr(x, done) == x \in done

ThrottleIdle ==
    /\ tokens = tMax
    /\ onceDone = FALSE
    /\ tWaiting = 0
    /\ tBusy = FALSE
    /\ cancelled = {}
    /\ loop = "none"
    /\ loopCtx = 0
    /\ tickReady = FALSE
    /\ loopsStarted = 0
    /\ spanAdmitted = 0
    /\ spanTicks = 0
    /\ tLastCtx = 0
    /\ tEvent = "init"

ThrottleInit ==
    /\ tMax \in 0..MaxCap
    /\ tRefill \in 0..MaxRefill
    /\ ThrottleIdle

\* the callers that are inside the wrapper
InCall == tWaiting + (IF tBusy THEN 1 ELSE 0)

\* lines 27-29: a call whose context x is already done
ThrottleCtxErr(x) ==
    /\ InCall < NumCallers
    /\ CtxErr(x, cancelled)
    /\ tLastCtx' = x
    /\ tEvent' = "ctxerr"
    /\ UNCHANGED <<tMax, tRefill, tokens, onceDone, tWaiting, tBusy, cancelled,
                   loop, loopCtx, tickReady, loopsStarted, spanAdmitted, spanTicks>>
    /\ UNCHANGED tOthers

\* lines 27-51: a call whose context x is live; once.Do starts the refill
\* goroutine, which selects on the context of this call
ThrottleEnter(x) ==
    /\ InCall < NumCallers
    /\ ~CtxErr(x, cancelled)
    /\ IF OnceFires(onceDone)
       THEN /\ onceDone' = TRUE
            /\ loop' = "select"
            /\ loopCtx' = x
            /\ tickReady' = FALSE
            /\ loopsStarted' = loopsStarted + 1
       ELSE UNCHANGED <<onceDone, loop, loopCtx, tickReady, loopsStarted>>
    /\ tWaiting' = tWaiting + 1
    /\ tLastCtx' = x
    /\ tEvent' = "enter"
    /\ UNCHANGED <<tMax, tRefill, tokens, tBusy, cancelled, spanAdmitted, spanTicks>>
    /\ UNCHANGED tOthers

\* lines 52-57: mu is taken, the bucket is empty, the deferred Unlock runs
ThrottleLimited ==
    /\ tWaiting > 0
    /\ ~tBusy
    /\ BucketEmpty(tokens)
    /\ tWaiting' = tWaiting - 1
    /\ tLastCtx' = 0
    /\ tEvent' = "limited"
    /\ UNCHANGED <<tMax, tRefill, tokens, onceDone, tBusy, cancelled, loop, loopCtx,
                   tickReady, loopsStarted, spanAdmitted, spanTicks>>
    /\ UNCHANGED tOthers

\* lines 52-60: mu is taken, a token is consumed, effector(ctx) is entered
\* with mu held
ThrottleAdmit ==
    /\ tWaiting > 0
    /\ ~tBusy
    /\ ~BucketEmpty(tokens)
    /\ tokens' = Consume(tokens)
    /\ tBusy' = TRUE
    /\ tWaiting' = tWaiting - 1
    /\ spanAdmitted' = spanAdmitted + 1
    /\ tLastCtx' = 0
    /\ tEvent' = "admit"
    /\ UNCHANGED <<tMax, tRefill, onceDone, cancelled, loop, loopCtx, tickReady,
                   loopsStarted, spanTicks>>
    /\ UNCHANGED tOthers

\* line 60 and the deferred Unlock of line 53: effector(ctx) returns
ThrottleReturn ==
    /\ tBusy
    /\ tBusy' = FALSE
    /\ tLastCtx' = 0
    /\ tEvent' = "return"
    /\ UNCHANGED <<tMax, tRefill, tokens, onceDone, tWaiting, cancelled, loop,
                   loopCtx, tickReady, loopsStarted, spanAdmitted, spanTicks>>
    /\ UNCHANGED tOthers

\* the ticker of line 33 fires; a tick that finds the buffer full is dropped
TickerFire ==
    /\ loop \in {"select", "refill"}
    /\ ~tickReady
    /\ tickReady' = TRUE
    /\ tLastCtx' = 0
    /\ tEvent' = "other"
    /\ UNCHANGED <<tMax, tRefill, tokens, onceDone, tWaiting, tBusy, cancelled,
                   loop, loopCtx, loopsStarted, spanAdmitted, spanTicks>>
    /\ UNCHANGED tOthers

\* line 42: the select receives from ticker.C
LoopTake ==
    /\ loop = "select"
    /\ tickReady
    /\ tickReady' = FALSE
    /\ loop' = "refill"
    /\ tLastCtx' = 0
    /\ tEvent' = "other"
    /\ UNCHANGED <<tMax, tRefill, tokens, onceDone, tWaiting, tBusy, cancelled,
                   loopCtx, loopsStarted, spanAdmitted, spanTicks>>
    /\ UNCHANGED tOthers

\* lines 43-46: the refill under mu
LoopRefill ==
    /\ loop = "refill"
    /\ ~tBusy
    /\ spanTicks < MaxSpanTicks
    /\ tokens' = Refilled(tokens, tRefill, tMax)
    /\ loop' = "select"
    /\ spanTicks' = spanTicks + 1
    /\ tLastCtx' = 0
    /\ tEvent' = "refill"
    /\ UNCHANGED <<tMax, tRefill, onceDone, tWaiting, tBusy, cancelled, loopCtx,
                   tickReady, loopsStarted, spanAdmitted>>
    /\ UNCHANGED tOthers

\* lines 40-41 and the deferred ticker.Stop of line 36
LoopStop ==
    /\ loop = "select"
    /\ loopCtx \in cancelled
    /\ loop' = "stopped"
    /\ tickReady' = FALSE
    /\ tLastCtx' = 0
    /\ tEvent' = "other"
    /\ UNCHANGED <<tMax, tRefill, tokens, onceDone, tWaiting, tBusy, cancelled,
                   loopCtx, loopsStarted, spanAdmitted, spanTicks>>
    /\ UNCHANGED tOthers

\* the owner of context x cancels it
CancelCtx(x) ==
    /\ x \notin cancelled
    /\ cancelled' = cancelled \cup {x}
    /\ tLastCtx' = 0
    /\ tEvent' = "other"
    /\ UNCHANGED <<tMax, tRefill, tokens, onceDone, tWaiting, tBusy, loop, loopCtx,
                   tickReady, loopsStarted, spanAdmitted, spanTicks>>
    /\ UNCHANGED tOthers

\* an observer begins a new span: the two span counters restart
SpanStart ==
    /\ spanAdmitted > 0 \/ spanTicks > 0
    /\ spanAdmitted' = 0
    /\ spanTicks' = 0
    /\ tLastCtx' = 0
    /\ tEvent' = "other"
    /\ UNCHANGED <<tMax, tRefill, tokens, onceDone, tWaiting, tBusy, cancelled,
                   loop, loopCtx, tickReady, loopsStarted>>
    /\ UNCHANGED tOthers

ThrottleNext ==
    \/ \E x \in Ctxs : ThrottleCtxErr(x)
    \/ \E x \in Ctxs : ThrottleEnter(x)
    \/ ThrottleLimited
    \/ ThrottleAdmit
    \/ ThrottleReturn
    \/ TickerFire
    \/ LoopTake
    \/ LoopRefill
    \/ LoopStop
    \/ \E x \in Ctxs : CancelCtx(x)
    \/ SpanStart

(***************************************************************************)
(* DebounceFirst                                                           *)
(*                                                                         *)
(* mu is held from line 95 to the return, the call of circuit(ctx)         *)
(* included, so the calls run one after the other; a call's time is the    *)
(* time.Now() it reads at line 98 once it holds mu.                        *)
(***************************************************************************)
Results == {<<"a", "nil">>, <<"b", "err">>}

\* a slip of line 98: !After where Before stood
NotAfterThreshold(now, th) == now <= th

\* line 98: time.Now().Before(threshold)
Before(now, th) == now < th

\* a slip of line 105: the window is not added
NextThresholdNoWindow(now, d) == now

\* line 105: threshold = time.Now().Add(d)
NextThreshold(now, d) == now + d

DFInit ==
    /\ dfWindow \in 0..MaxWindow
    /\ dfThreshold = 0
    /\ dfResult = <<"", "nil">>
    /\ dfRunning = FALSE
    /\ dfStart = 0
    /\ dfNow = 0
    /\ dfCalls = <<>>

\* lines 95-101: inside the window, the cached pair is returned
DFSuppress ==
    /\ ~dfRunning
    /\ Len(dfCalls) < MaxCalls
    /\ Before(dfNow, dfThreshold)
    /\ dfCalls' = Append(dfCalls,
                     [at |-> dfNow, exec |-> FALSE, res |-> dfResult, ret |-> dfNow])
    /\ UNCHANGED <<dfWindow, dfThreshold, dfResult, dfRunning, dfStart, dfNow>>
    /\ UNCHANGED dfOthers

\* lines 95-104: outside the window, circuit(ctx) is entered with mu held
DFBegin ==
    /\ ~dfRunning
    /\ Len(dfCalls) < MaxCalls
    /\ ~Before(dfNow, dfThreshold)
    /\ dfRunning' = TRUE
    /\ dfStart' = dfNow
    /\ UNCHANGED <<dfWindow, dfThreshold, dfResult, dfNow, dfCalls>>
    /\ UNCHANGED dfOthers

\* lines 104-107: circuit(ctx) returns r, which is cached; the window restarts
DFFinish(r) ==
    /\ dfRunning
    /\ dfResult' = r
    /\ dfThreshold' = NextThreshold(dfNow, dfWindow)
    /\ dfRunning' = FALSE
    /\ dfCalls' = Append(dfCalls,
                     [at |-> dfStart, exec |-> TRUE, res |-> r, ret |-> dfNow])
    /\ UNCHANGED <<dfWindow, dfStart, dfNow>>
    /\ UNCHANGED dfOthers

DFTick ==
    /\ dfNow < MaxTime
    /\ dfNow' = dfNow + 1
    /\ UNCHANGED <<dfWindow, dfThreshold, dfResult, dfRunning, dfStart, dfCalls>>
    /\ UNCHANGED dfOthers

DFNext ==
    \/ DFSuppress
    \/ DFBegin
    \/ \E r \in Results : DFFinish(r)
    \/ DFTick

(***************************************************************************)
(* DebounceFirstContext                                                    *)
(*                                                                         *)
(* Line 136 reads lastCtx after mu.Unlock, while another call may write it *)
(* under mu: the read is a step of its own and yields the value lastCtx    *)
(* holds at that moment.                                                   *)
(***************************************************************************)
CallIds == 1..MaxCalls

\* lines 126-128: the previous call is cancelled only inside its window
CancelsPrevious(now, th) == Before(now, th)

DCInit ==
    /\ dcWindow \in 0..MaxWindow
    /\ dcThreshold = 0
    /\ dcLastCtx = 0
    /\ dcCancelled = {}
    /\ dcCalls = 0
    /\ dcPc = [n \in CallIds |-> "none"]
    /\ dcCtxUsed = [n \in CallIds |-> 0]
    /\ dcNow = 0

\* lines 123-134: the section under mu
DCCall ==
    /\ dcCalls < MaxCalls
    /\ dcCalls' = dcCalls + 1
    /\ dcCancelled' = IF CancelsPrevious(dcNow, dcThreshold)
                      THEN dcCancelled \cup {dcLastCtx}
                      ELSE dcCancelled
    /\ dcLastCtx' = dcCalls + 1
    /\ dcThreshold' = NextThreshold(dcNow, dcWindow)
    /\ dcPc' = [dcPc EXCEPT ![dcCalls + 1] = "unlocked"]
    /\ UNCHANGED <<dcWindow, dcCtxUsed, dcNow>>
    /\ UNCHANGED dcOthers

\* line 136: circuit(lastCtx) is entered with the current lastCtx
DCInvoke(n) ==
    /\ dcPc[n] = "unlocked"
    /\ dcPc' = [dcPc EXCEPT ![n] = "running"]
    /\ dcCtxUsed' = [dcCtxUsed EXCEPT ![n] = dcLastCtx]
    /\ UNCHANGED <<dcWindow, dcThreshold, dcLastCtx, dcCancelled, dcCalls, dcNow>>
    /\ UNCHANGED dcOthers

\* lines 136-138: circuit returns
DCReturn(n) ==
    /\ dcPc[n] = "running"
    /\ dcPc' = [dcPc EXCEPT ![n] = "returned"]
    /\ UNCHANGED <<dcWindow, dcThreshold, dcLastCtx, dcCancelled, dcCalls,
                   dcCtxUsed, dcNow>>
    /\ UNCHANGED dcOthers

\* the caller of call n cancels the context it passed; the context derived
\* from it at line 131 is done with it
DCParentCancel(n) ==
    /\ dcPc[n] \in {"unlocked", "running"}
    /\ n \notin dcCancelled
    /\ dcCancelled' = dcCancelled \cup {n}
    /\ UNCHANGED <<dcWindow, dcThreshold, dcLastCtx, dcCalls, dcPc, dcCtxUsed, dcNow>>
    /\ UNCHANGED dcOthers

DCTick ==
    /\ dcNow < MaxTime
    /\ dcNow' = dcNow + 1
    /\ UNCHANGED <<dcWindow, dcThreshold, dcLastCtx, dcCancelled, dcCalls, dcPc,
                   dcCtxUsed>>
    /\ UNCHANGED dcOthers

DCNext ==
    \/ DCCall
    \/ \E n \in CallIds : DCInvoke(n)
    \/ \E n \in CallIds : DCReturn(n)
    \/ \E n \in CallIds : DCParentCancel(n)
    \/ DCTick

(***************************************************************************)
(* DebounceLast                                                            *)
(*                                                                         *)
(* cctx is a variable of the enclosing function.  The timer function       *)
(* (line 173), the select (line 185) and the return (line 186) read it     *)
(* without mu while a later call may write it under mu: each of these      *)
(* reads is a step of its own and yields the value cctx holds then.        *)
(***************************************************************************)

\* time.AfterFunc(d, f): f may start once d has passed since the timer was made
Expired(now, at, d) == now >= at + d

\* line 160: timer.Stop() keeps a timer that has not fired from firing
Stopped(st) == IF st = "armed" THEN "stopped" ELSE st

DLInit ==
    /\ dlWindow \in 1..MaxWindow
    /\ dlTimer = 0
    /\ dlCctx = 0
    /\ dlCancelled = {}
    /\ dlCalls = 0
    /\ dlAt = [n \in CallIds |-> 0]
    /\ dlTimerState = [n \in CallIds |-> "none"]
    /\ dlCtxUsed = [n \in CallIds |-> 0]
    /\ dlPc = [n \in CallIds |-> "none"]
    /\ dlWaitCtx = [n \in CallIds |-> 0]
    /\ dlRet = [n \in CallIds |-> "none"]
    /\ dlNow = 0

\* lines 156-180: the section under mu; a call is made only while its
\* timer can still expire before the clock of the model ends
DLCall ==
    /\ dlCalls < MaxCalls
    /\ dlNow + dlWindow <= MaxTime
    /\ dlCalls' = dlCalls + 1
    /\ dlCancelled' = IF dlTimer # 0 THEN dlCancelled \cup {dlCctx} ELSE dlCancelled
    /\ dlTimerState' = [n \in CallIds |->
                          IF n = dlCalls + 1 THEN "armed"
                          ELSE IF n = dlTimer THEN Stopped(dlTimerState[n])
                          ELSE dlTimerState[n]]
    /\ dlCctx' = dlCalls + 1
    /\ dlTimer' = dlCalls + 1
    /\ dlAt' = [dlAt EXCEPT ![dlCalls + 1] = dlNow]
    /\ dlPc' = [dlPc EXCEPT ![dlCalls + 1] = "unlocked"]
    /\ UNCHANGED <<dlWindow, dlCtxUsed, dlWaitCtx, dlRet, dlNow>>
    /\ UNCHANGED dlOthers

\* lines 182-185: the select is entered and cctx.Done() is evaluated
DLSelect(n) ==
    /\ dlPc[n] = "unlocked"
    /\ dlPc' = [dlPc EXCEPT ![n] = "select"]
    /\ dlWaitCtx' = [dlWaitCtx EXCEPT ![n] = dlCctx]
    /\ UNCHANGED <<dlWindow, dlTimer, dlCctx, dlCancelled, dlCalls, dlAt,
                   dlTimerState, dlCtxUsed, dlRet, dlNow>>
    /\ UNCHANGED dlOthers

\* line 172: the timer of call n expires and its function is started
DLTimerFire(n) ==
    /\ dlTimerState[n] = "armed"
    /\ Expired(dlNow, dlAt[n], dlWindow)
    /\ dlTimerState' = [dlTimerState EXCEPT ![n] = "fired"]
    /\ UNCHANGED <<dlWindow, dlTimer, dlCctx, dlCancelled, dlCalls, dlAt, dlCtxUsed,
                   dlPc, dlWaitCtx, dlRet, dlNow>>
    /\ UNCHANGED dlOthers

\* line 173: the timer function enters circuit(cctx) with the current cctx
DLInvoke(n) ==
    /\ dlTimerState[n] = "fired"
    /\ dlTimerState' = [dlTimerState EXCEPT ![n] = "running"]
    /\ dlCtxUsed' = [dlCtxUsed EXCEPT ![n] = dlCctx]
    /\ UNCHANGED <<dlWindow, dlTimer, dlCctx, dlCancelled, dlCalls, dlAt, dlPc,
                   dlWaitCtx, dlRet, dlNow>>
    /\ UNCHANGED dlOthers

\* lines 173-177: circuit returns and the result is put in the channel of
\* call n, which buffers one value
DLOpReturn(n) ==
    /\ dlTimerState[n] = "running"
    /\ dlTimerState' = [dlTimerState EXCEPT ![n] = "done"]
    /\ UNCHANGED <<dlWindow, dlTimer, dlCctx, dlCancelled, dlCalls, dlAt, dlCtxUsed,
                   dlPc, dlWaitCtx, dlRet, dlNow>>
    /\ UNCHANGED dlOthers

\* lines 183-184: the select receives the result
DLReturnResult(n) ==
    /\ dlPc[n] = "select"
    /\ dlTimerState[n] = "done"
    /\ dlPc' = [dlPc EXCEPT ![n] = "returned"]
    /\ dlRet' = [dlRet EXCEPT ![n] = "result"]
    /\ UNCHANGED <<dlWindow, dlTimer, dlCctx, dlCancelled, dlCalls, dlAt,
                   dlTimerState, dlCtxUsed, dlWaitCtx, dlNow>>
    /\ UNCHANGED dlOthers

\* lines 185-186: the awaited context is done; cctx.Err() is read from the
\* current cctx, which is nil while that context is live
DLReturnCancelled(n) ==
    /\ dlPc[n] = "select"
    /\ dlWaitCtx[n] \in dlCancelled
    /\ dlPc' = [dlPc EXCEPT ![n] = "returned"]
    /\ dlRet' = [dlRet EXCEPT ![n] =
                    IF dlCctx \in dlCancelled THEN "ctxerr" ELSE "nilerr"]
    /\ UNCHANGED <<dlWindow, dlTimer, dlCctx, dlCancelled, dlCalls, dlAt,
                   dlTimerState, dlCtxUsed, dlWaitCtx, dlNow>>
    /\ UNCHANGED dlOthers

\* the caller of call n cancels the context it passed; the context derived
\* from it at line 165 is done with it
DLParentCancel(n) ==
    /\ dlPc[n] \in {"unlocked", "select"}
    /\ n \notin dlCancelled
    /\ dlCancelled' = dlCancelled \cup {n}
    /\ UNCHANGED <<dlWindow, dlTimer, dlCctx, dlCalls, dlAt, dlTimerState,
                   dlCtxUsed, dlPc, dlWaitCtx, dlRet, dlNow>>
    /\ UNCHANGED dlOthers

DLTick ==
    /\ dlNow < MaxTime
    /\ dlNow' = dlNow + 1
    /\ UNCHANGED <<dlWindow, dlTimer, dlCctx, dlCancelled, dlCalls, dlAt,
                   dlTimerState, dlCtxUsed, dlPc, dlWaitCtx, dlRet>>
    /\ UNCHANGED dlOthers

DLNext ==
    \/ DLCall
    \/ \E n \in CallIds : DLSelect(n)
    \/ \E n \in CallIds : DLTimerFire(n)
    \/ \E n \in CallIds : DLInvoke(n)
    \/ \E n \in CallIds : DLOpReturn(n)
    \/ \E n \in CallIds : DLReturnResult(n)
    \/ \E n \in CallIds : DLReturnCancelled(n)
    \/ \E n \in CallIds : DLParentCancel(n)
    \/ DLTick

(***************************************************************************)
(* Retry (circuit_breaker.go:209-220).  One call of the wrapper.  The      *)
(* operation is the plan of its outcomes, invocation by invocation; an     *)
(* operation that honours its context answers ctx.Err() once the context   *)
(* is done.  The response of invocation i is the number i.                 *)
(***************************************************************************)
Outcomes == {"nil", "err"}

Plans == [1..(MaxRetries + 1) -> Outcomes]

\* line 213: err != nil || r >= maxRetries
GivesUp(err, i, m) == err # "nil" \/ i >= m

\* what the operation answers to its i-th invocation
Answer(i) ==
    IF rHonors /\ rCancelled THEN <<0, "ctxerr">> ELSE <<i, rPlan[i]>>

RetryInit ==
    /\ rMax \in 0..MaxRetries
    /\ rPlan \in Plans
    /\ rHonors \in BOOLEAN
    /\ rLoop = 0
    /\ rPc = "idle"
    /\ rInvoked = 0
    /\ rLast = <<0, "nil">>
    /\ rRet = <<0, "none">>
    /\ rCancelled = FALSE
    /\ rLate = 0

\* lines 210-212: the wrapper is called, r := 0, effector(ctx) is entered
RetryStart ==
    /\ rPc = "idle"
    /\ rLoop' = 0
    /\ rPc' = "calling"
    /\ rInvoked' = 1
    /\ UNCHANGED <<rMax, rPlan, rHonors, rLast, rRet, rCancelled, rLate>>
    /\ UNCHANGED rOthers

\* line 212: effector(ctx) returns response, err
RetryOpReturn ==
    /\ rPc = "calling"
    /\ rLast' = Answer(rInvoked)
    /\ rPc' = "got"
    /\ UNCHANGED <<rMax, rPlan, rHonors, rLoop, rInvoked, rRet, rCancelled, rLate>>
    /\ UNCHANGED rOthers

\* lines 213-215: return response, err
RetryReturn ==
    /\ rPc = "got"
    /\ GivesUp(rLast[2], rLoop, rMax)
    /\ rRet' = rLast
    /\ rPc' = "returned"
    /\ UNCHANGED <<rMax, rPlan, rHonors, rLoop, rInvoked, rLast, rCancelled, rLate>>
    /\ UNCHANGED rOthers

\* lines 217, 211, 212: the log line, r++, effector(ctx) is entered again;
\* delay is logged and not waited for
RetryAgain ==
    /\ rPc = "got"
    /\ ~GivesUp(rLast[2], rLoop, rMax)
    /\ rLoop' = rLoop + 1
    /\ rInvoked' = rInvoked + 1
    /\ rLate' = IF rCancelled THEN rLate + 1 ELSE rLate
    /\ rPc' = "calling"
    /\ UNCHANGED <<rMax, rPlan, rHonors, rLast, rRet, rCancelled>>
    /\ UNCHANGED rOthers

\* the caller's context is cancelled during an attempt or between attempts
RetryCancel ==
    /\ rPc \in {"calling", "got"}
    /\ ~rCancelled
    /\ rCancelled' = TRUE
    /\ UNCHANGED <<rMax, rPlan, rHonors, rLoop, rPc, rInvoked, rLast, rRet, rLate>>
    /\ UNCHANGED rOthers

RetryNext ==
    \/ RetryStart
    \/ RetryOpReturn
    \/ RetryReturn
    \/ RetryAgain
    \/ RetryCancel

(***************************************************************************)
(* Timeout and TimeoutWithPrecheck (part_002:18-78).  One call of the      *)
(* wrapper, its worker goroutine and its context.  fn(arg) returns at the  *)
(* instant T = toT, the context becomes done at the instant D = toD; two   *)
(* events never share an instant.                                          *)
(***************************************************************************)
CtxError == <<"", "ctxerr">>

\* a slip of lines 51-53: the goroutine is started whatever ctx.Err() says
PrecheckSkipped(precheck, expired) == FALSE

\* lines 51-53: if err := ctx.Err(); err != nil
PrecheckRejects(precheck, expired) == precheck /\ expired

\* a slip of lines 20-23: ch is made without a buffer, a send completes
\* only while the caller is at its select
HasRoomUnbuffered(ch) == Len(ch) < 1 /\ toPc = "select"

\* lines 20-23: make(chan ..., 1), a send completes while the buffer has
\* room for one value
HasRoom(ch) == Len(ch) < 1

TimeoutInit ==
    /\ toPrecheck \in BOOLEAN
    /\ toExpired \in BOOLEAN
    /\ toD = 0
    /\ toWorker = "none"
    /\ toRes = <<"", "nil">>
    /\ toT = 0
    /\ toCh = <<>>
    /\ toPc = "idle"
    /\ toRet = <<"", "none">>
    /\ toLive = FALSE
    /\ toPosts = 0
    /\ toNow = 1

\* part_002:51-53: the context is done already, return "", err
TimeoutReject ==
    /\ toPc = "idle"
    /\ PrecheckRejects(toPrecheck, toExpired)
    /\ toRet' = CtxError
    /\ toPc' = "returned"
    /\ toLive' = FALSE
    /\ UNCHANGED <<toPrecheck, toExpired, toD, toWorker, toRes, toT, toCh, toPosts,
                   toNow>>
    /\ UNCHANGED toOthers

\* part_002:20-31, 55-67: make(chan, 1), go func, then the select is reached
TimeoutStart ==
    /\ toPc = "idle"
    /\ ~PrecheckRejects(toPrecheck, toExpired)
    /\ toCh' = <<>>
    /\ toWorker' = "running"
    /\ toPc' = "select"
    /\ toLive' = ~toExpired
    /\ UNCHANGED <<toPrecheck, toExpired, toD, toRes, toT, toRet, toPosts, toNow>>
    /\ UNCHANGED toOthers

\* part_002:26, 62: res, err := fn(arg) returns
WorkerReturn(res) ==
    /\ toWorker = "running"
    /\ toExpired => toD # toNow
    /\ toRes' = res
    /\ toT' = toNow
    /\ toWorker' = "posting"
    /\ UNCHANGED <<toPrecheck, toExpired, toD, toCh, toPc, toRet, toLive, toPosts,
                   toNow>>
    /\ UNCHANGED toOthers

\* part_002:27-30, 63-66: ch <- {res, err}, which waits for room in the
\* buffer, then the goroutine ends
WorkerPost ==
    /\ toWorker = "posting"
    /\ HasRoom(toCh)
    /\ toCh' = Append(toCh, toRes)
    /\ toPosts' = toPosts + 1
    /\ toWorker' = "done"
    /\ UNCHANGED <<toPrecheck, toExpired, toD, toRes, toT, toPc, toRet, toLive, toNow>>
    /\ UNCHANGED toOthers

\* part_002:35-37, 71-72: case res := <-ch
SelectResult ==
    /\ toPc = "select"
    /\ toCh # <<>>
    /\ toRet' = Head(toCh)
    /\ toCh' = Tail(toCh)
    /\ toPc' = "returned"
    /\ UNCHANGED <<toPrecheck, toExpired, toD, toWorker, toRes, toT, toLive, toPosts,
                   toNow>>
    /\ UNCHANGED toOthers

\* part_002:38-41, 73-75: case <-ctx.Done(); when both cases are ready the
\* select takes either
SelectDone ==
    /\ toPc = "select"
    /\ toExpired
    /\ toRet' = CtxError
    /\ toPc' = "returned"
    /\ UNCHANGED <<toPrecheck, toExpired, toD, toWorker, toRes, toT, toCh, toLive,
                   toPosts, toNow>>
    /\ UNCHANGED toOthers

\* the deadline of ctx passes, or ctx is cancelled
CtxExpire ==
    /\ ~toExpired
    /\ toWorker \in {"posting", "done"} => toT # toNow
    /\ toExpired' = TRUE
    /\ toD' = toNow
    /\ UNCHANGED <<toPrecheck, toWorker, toRes, toT, toCh, toPc, toRet, toLive,
                   toPosts, toNow>>
    /\ UNCHANGED toOthers

TimeoutTick ==
    /\ toNow < MaxTime + 1
    /\ toNow' = toNow + 1
    /\ UNCHANGED <<toPrecheck, toExpired, toD, toWorker, toRes, toT, toCh, toPc, toRet,
                   toLive, toPosts>>
    /\ UNCHANGED toOthers

TimeoutNext ==
    \/ TimeoutReject
    \/ TimeoutStart
    \/ \E res \in Results : WorkerReturn(res)
    \/ WorkerPost
    \/ SelectResult
    \/ SelectDone
    \/ CtxExpire
    \/ TimeoutTick

(***************************************************************************)
(* Funnel (part_000:19-43).  One call of Funnel, the producers of its      *)
(* sources, its goroutines, and a consumer that ranges over dest and so    *)
(* is always ready to receive.  The values of a source are 1, 2, ...       *)
(***************************************************************************)
Sources == 1..MaxSources

Active == 1..fN

FunnelInit ==
    /\ fN \in 0..MaxSources
    /\ fPlan \in [Sources -> 0..MaxValues]
    /\ \A i \in Sources : i > fN => fPlan[i] = 0
    /\ fSent = [i \in Sources |-> 0]
    /\ fSrcClosed = [i \in Sources |-> FALSE]
    /\ fCalled = FALSE
    /\ fFwd = [i \in Sources |-> "none"]
    /\ fHeld = [i \in Sources |-> 0]
    /\ fWg = 0
    /\ fCloser = [i \in Sources |-> "none"]
    /\ fDestClosed = FALSE
    /\ fCloses = 0
    /\ fPanicked = FALSE
    /\ fOut = [i \in Sources |-> <<>>]

\* part_000:19-42: make dest, wg.Add(len(sources)), and for every source a
\* forwarder goroutine and a goroutine that waits for wg and closes dest
FunnelCall ==
    /\ ~fCalled
    /\ fCalled' = TRUE
    /\ fWg' = fN
    /\ fFwd' = [i \in Sources |-> IF i \in Active THEN "range" ELSE "none"]
    /\ fCloser' = [i \in Sources |-> IF i \in Active THEN "wait" ELSE "none"]
    /\ UNCHANGED <<fN, fPlan, fSent, fSrcClosed, fHeld, fDestClosed, fCloses,
                   fPanicked, fOut>>
    /\ UNCHANGED fOthers

\* part_000:31: for n := range ch receives the next value of the producer
ForwarderReceive(i) ==
    /\ ~fPanicked
    /\ fFwd[i] = "range"
    /\ fSent[i] < fPlan[i]
    /\ fSent' = [fSent EXCEPT ![i] = @ + 1]
    /\ fHeld' = [fHeld EXCEPT ![i] = fSent[i] + 1]
    /\ fFwd' = [fFwd EXCEPT ![i] = "send"]
    /\ UNCHANGED <<fN, fPlan, fSrcClosed, fCalled, fWg, fCloser, fDestClosed, fCloses,
                   fPanicked, fOut>>
    /\ UNCHANGED fOthers

\* part_000:32: dest <- n, taken by the consumer; a send on a closed channel
\* panics
ForwarderSend(i) ==
    /\ ~fPanicked
    /\ fFwd[i] = "send"
    /\ IF fDestClosed
       THEN fPanicked' = TRUE /\ UNCHANGED <<fOut, fFwd>>
       ELSE /\ fOut' = [fOut EXCEPT ![i] = Append(@, fHeld[i])]
            /\ fFwd' = [fFwd EXCEPT ![i] = "range"]
            /\ UNCHANGED fPanicked
    /\ UNCHANGED <<fN, fPlan, fSent, fSrcClosed, fCalled, fHeld, fWg, fCloser,
                   fDestClosed, fCloses>>
    /\ UNCHANGED fOthers

\* the producer of source i closes it after its last value
SourceClose(i) ==
    /\ i \in Active
    /\ ~fSrcClosed[i]
    /\ fSent[i] = fPlan[i]
    /\ fSrcClosed' = [fSrcClosed EXCEPT ![i] = TRUE]
    /\ UNCHANGED <<fN, fPlan, fSent, fCalled, fFwd, fHeld, fWg, fCloser, fDestClosed,
                   fCloses, fPanicked, fOut>>
    /\ UNCHANGED fOthers

\* part_000:29-33: the range ends on the closed source, the deferred
\* wg.Done() runs
ForwarderExit(i) ==
    /\ ~fPanicked
    /\ fFwd[i] = "range"
    /\ fSrcClosed[i]
    /\ fFwd' = [fFwd EXCEPT ![i] = "done"]
    /\ fWg' = fWg - 1
    /\ UNCHANGED <<fN, fPlan, fSent, fSrcClosed, fCalled, fHeld, fCloser, fDestClosed,
                   fCloses, fPanicked, fOut>>
    /\ UNCHANGED fOthers

\* part_000:37-38: wg.Wait() returns and close(dest) runs; the close of a
\* closed channel panics
CloserClose(i) ==
    /\ ~fPanicked
    /\ fCloser[i] = "wait"
    /\ fWg = 0
    /\ fCloses' = fCloses + 1
    /\ fDestClosed' = TRUE
    /\ fPanicked' = fDestClosed
    /\ fCloser' = [fCloser EXCEPT ![i] = IF fDestClosed THEN "panicked" ELSE "done"]
    /\ UNCHANGED <<fN, fPlan, fSent, fSrcClosed, fCalled, fFwd, fHeld, fWg, fOut>>
    /\ UNCHANGED fOthers

FunnelNext ==
    \/ FunnelCall
    \/ \E i \in Sources : ForwarderReceive(i)
    \/ \E i \in Sources : ForwarderSend(i)
    \/ \E i \in Sources : SourceClose(i)
    \/ \E i \in Sources : ForwarderExit(i)
    \/ \E i \in Sources : CloserClose(i)

(***************************************************************************)
(* Specifications: one wrapper runs, the others stay as constructed.       *)
(***************************************************************************)
BreakerParked ==
    /\ bThreshold = 1
    /\ failures = 0
    /\ last = 0
    /\ attempted = FALSE
    /\ calling = 0
    /\ bNow = 0
    /\ bEvent = "init"

ThrottleParked == tMax = 1 /\ tRefill = 1 /\ ThrottleIdle

DFParked ==
    /\ dfWindow = 1
    /\ dfThreshold = 0
    /\ dfResult = <<"", "nil">>
    /\ dfRunning = FALSE
    /\ dfStart = 0
    /\ dfNow = 0
    /\ dfCalls = <<>>

DCParked ==
    /\ dcWindow = 1
    /\ dcThreshold = 0
    /\ dcLastCtx = 0
    /\ dcCancelled = {}
    /\ dcCalls = 0
    /\ dcPc = [n \in CallIds |-> "none"]
    /\ dcCtxUsed = [n \in CallIds |-> 0]
    /\ dcNow = 0

DLParked ==
    /\ dlWindow = 1
    /\ dlTimer = 0
    /\ dlCctx = 0
    /\ dlCancelled = {}
    /\ dlCalls = 0
    /\ dlAt = [n \in CallIds |-> 0]
    /\ dlTimerState = [n \in CallIds |-> "none"]
    /\ dlCtxUsed = [n \in CallIds |-> 0]
    /\ dlPc = [n \in CallIds |-> "none"]
    /\ dlWaitCtx = [n \in CallIds |-> 0]
    /\ dlRet = [n \in CallIds |-> "none"]
    /\ dlNow = 0

RetryParked ==
    /\ rMax = 0
    /\ rPlan = [i \in 1..(MaxRetries + 1) |-> "nil"]
    /\ rHonors = FALSE
    /\ rLoop = 0
    /\ rPc = "idle"
    /\ rInvoked = 0
    /\ rLast = <<0, "nil">>
    /\ rRet = <<0, "none">>
    /\ rCancelled = FALSE
    /\ rLate = 0

TimeoutParked ==
    /\ toPrecheck = FALSE
    /\ toExpired = FALSE
    /\ toD = 0
    /\ toWorker = "none"
    /\ toRes = <<"", "nil">>
    /\ toT = 0
    /\ toCh = <<>>
    /\ toPc = "idle"
    /\ toRet = <<"", "none">>
    /\ toLive = FALSE
    /\ toPosts = 0
    /\ toNow = 1

FunnelParked ==
    /\ fN = 0
    /\ fPlan = [i \in Sources |-> 0]
    /\ fSent = [i \in Sources |-> 0]
    /\ fSrcClosed = [i \in Sources |-> FALSE]
    /\ fCalled = FALSE
    /\ fFwd = [i \in Sources |-> "none"]
    /\ fHeld = [i \in Sources |-> 0]
    /\ fWg = 0
    /\ fCloser = [i \in Sources |-> "none"]
    /\ fDestClosed = FALSE
    /\ fCloses = 0
    /\ fPanicked = FALSE
    /\ fOut = [i \in Sources |-> <<>>]

InitBreaker ==
    BreakerInit /\ ThrottleParked /\ DFParked /\ DCParked /\ DLParked /\ RetryParked
        /\ TimeoutParked /\ FunnelParked

InitThrottle ==
    BreakerParked /\ ThrottleInit /\ DFParked /\ DCParked /\ DLParked /\ RetryParked
        /\ TimeoutParked /\ FunnelParked

InitDebounceFirst ==
    BreakerParked /\ ThrottleParked /\ DFInit /\ DCParked /\ DLParked /\ RetryParked
        /\ TimeoutParked /\ FunnelParked

InitDebounceFirstContext ==
    BreakerParked /\ ThrottleParked /\ DFParked /\ DCInit /\ DLParked /\ RetryParked
        /\ TimeoutParked /\ FunnelParked

InitDebounceLast ==
    BreakerParked /\ ThrottleParked /\ DFParked /\ DCParked /\ DLInit /\ RetryParked
        /\ TimeoutParked /\ FunnelParked

InitRetry ==
    BreakerParked /\ ThrottleParked /\ DFParked /\ DCParked /\ DLParked /\ RetryInit
        /\ TimeoutParked /\ FunnelParked

InitTimeout ==
    BreakerParked /\ ThrottleParked /\ DFParked /\ DCParked /\ DLParked /\ RetryParked
        /\ TimeoutInit /\ FunnelParked

InitFunnel ==
    BreakerParked /\ ThrottleParked /\ DFParked /\ DCParked /\ DLParked /\ RetryParked
        /\ TimeoutParked /\ FunnelInit

SpecBreaker == InitBreaker /\ [][BreakerNext]_vars

SpecThrottle == InitThrottle /\ [][ThrottleNext]_vars

\* The scheduler is fair to the refill goroutine: the ticker keeps firing,
\* a ready tick is received, sync.Mutex does not starve the goroutine at
\* line 43, and a select whose ctx.Done() case is ready again and again
\* takes it at last.  Nothing makes the wrapped operation return.
ThrottleFairness ==
    /\ WF_vars(TickerFire)
    /\ WF_vars(LoopTake)
    /\ SF_vars(LoopRefill)
    /\ SF_vars(LoopStop)
    /\ WF_vars(SpanStart)

SpecThrottleFair == InitThrottle /\ [][ThrottleNext]_vars /\ ThrottleFairness

\* the same, with a wrapped operation that always returns
SpecThrottleFairReturn == SpecThrottleFair /\ WF_vars(ThrottleReturn)

SpecDebounceFirst == InitDebounceFirst /\ [][DFNext]_vars

SpecDebounceFirstContext == InitDebounceFirstContext /\ [][DCNext]_vars

SpecDebounceLast == InitDebounceLast /\ [][DLNext]_vars

\* The scheduler is fair to the callers and to the timer functions: a caller
\* reaches its select, a select with a ready case returns, an expired timer
\* runs its function; time passes and the wrapped operation returns.
\* Nothing makes a caller cancel its context or call again.
DLFairness ==
    /\ WF_vars(DLTick)
    /\ \A n \in CallIds :
           /\ WF_vars(DLSelect(n))
           /\ WF_vars(DLReturnResult(n))
           /\ WF_vars(DLReturnCancelled(n))
           /\ WF_vars(DLTimerFire(n))
           /\ WF_vars(DLInvoke(n))
           /\ WF_vars(DLOpReturn(n))

SpecDebounceLastFair == InitDebounceLast /\ [][DLNext]_vars /\ DLFairness

SpecRetry == InitRetry /\ [][RetryNext]_vars

SpecTimeout == InitTimeout /\ [][TimeoutNext]_vars

\* the scheduler runs the worker goroutine when its send can complete
SpecTimeoutFair == InitTimeout /\ [][TimeoutNext]_vars /\ WF_vars(WorkerPost)

SpecFunnel == InitFunnel /\ [][FunnelNext]_vars

(***************************************************************************)
(* Breaker: claims                                                         *)
(***************************************************************************)

\* the clock has not passed last + 2^(failures-threshold+1) seconds while
\* failures >= threshold, the power taken in unbounded arithmetic
InsideStatedCooldown ==
    /\ failures >= bThreshold
    /\ attempted
    /\ LeqWord(WordOfNat(bNow - last),
               ShlWord(WordOfNat(1), failures - bThreshold + 1))

\* an admission check made in this step turned the call away and changed
\* nothing of the breaker
RejectedUntouched ==
    /\ bEvent' = "reject"
    /\ calling' = calling
    /\ failures' = failures
    /\ last' = last

\* C1: whenever failures >= threshold, an admission check made no later
\* than last + 2^(failures-threshold+1) seconds returns
\* ErrServiceUnavailable, does not enter the wrapped operation and leaves
\* failures and last unchanged.
C1_RejectedInsideCooldown ==
    [][(InsideStatedCooldown /\ bEvent' \in {"admit", "reject"})
          => RejectedUntouched]_vars

\* The same statement for failures - threshold <= 32, the values for which
\* (2 << d) * time.Second does not leave the int64 range.
RejectedInsideCooldownBelowOverflow ==
    [][(InsideStatedCooldown /\ failures - bThreshold <= 32
            /\ bEvent' \in {"admit", "reject"})
          => RejectedUntouched]_vars

\* what one step may do to the failure count
FailureCountStep ==
    /\ failures >= 0
    /\ failures' >= 0
    /\ (bEvent' \in {"ok", "fail"}) => (calling > 0 /\ calling' = calling - 1)
    /\ (bEvent' = "ok") => (failures' = 0)
    /\ (bEvent' = "fail") => (failures' = failures + 1)
    /\ (bEvent' \notin {"ok", "fail"}) => (failures' = failures)

\* C2: the failure count changes only when an admitted invocation of the
\* wrapped operation completes; it becomes 0 exactly when that invocation
\* succeeded, grows by exactly 1 exactly when it failed, and is never
\* negative.
C2_FailureCountSteps == [][FailureCountStep]_vars

\* two failures counted, the last one while another admitted call is still
\* inside the wrapped operation
C2_Witness == bEvent = "fail" /\ failures >= 2 /\ calling >= 1

\* the step is an admission check, made while no call is in flight
SequentialCall == calling = 0 /\ bEvent' \in {"admit", "reject"}

\* what a step of a run of sequential calls does around the first trip
TripProbeStep ==
    /\ (SequentialCall /\ failures < bThreshold) => (bEvent' = "admit")
    /\ (calling = 1 /\ failures < bThreshold /\ bEvent' = "fail")
           => (failures' = failures + 1 /\ calling' = 0)
    /\ (SequentialCall /\ failures = bThreshold /\ bNow - last <= 2)
           => (bEvent' = "reject" /\ calling' = 0)
    /\ (SequentialCall /\ failures = bThreshold /\ bNow - last > 2)
           => (bEvent' = "admit" /\ calling' = 1)
    /\ (bEvent' = "ok") => (failures' = 0)

\* C17: with sequential calls and threshold T >= 1, a call made while
\* failures < T is let through and its failure is counted (so the first T
\* failing calls are not rejected); with failures = T a call made within
\* the 2 s cooldown after last is rejected, the first call made later is let
\* through; a success sets failures to 0, where calls are admitted again.
C17_TripProbeReset == [][TripProbeStep]_vars

\* C17 witness: the circuit tripped at failures = threshold, the cooldown
\* went by, and the probe has just been let through
C17_Witness ==
    /\ bEvent = "admit"
    /\ calling = 1
    /\ failures = bThreshold
    /\ attempted
    /\ bNow - last > 2

\* a < b for two signed 64-bit words
LessWord(a, b) ==
    IF IsNegative(a) = IsNegative(b) THEN ~LeqWord(b, a) ELSE IsNegative(a)

\* the cooldown computed for d = failures - threshold is at least 2 s and
\* longer than the one computed for d - 1
CooldownGrows(d) ==
    /\ ~LessWord(CooldownTable[d], SecondsWord(2))
    /\ d > 0 => LessWord(CooldownTable[d - 1], CooldownTable[d])

\* the cooldowns below the overflow: (2 << d) s for d <= 32 fits in int64
CooldownGrowsBelowOverflow ==
    (failures >= bThreshold /\ failures - bThreshold <= 32)
        => CooldownGrows(failures - bThreshold)

\* C24: for every reachable failures >= threshold the cooldown
\* (2 << (failures-threshold)) s computed in int64 is at least 2 s and
\* longer than the cooldown for one failure fewer, and a call made at the
\* instant of the last attempt is rejected.
C24_CooldownNeverWraps ==
    failures >= bThreshold
        => /\ CooldownGrows(failures - bThreshold)
           /\ (attempted /\ bNow = last)
                  => BreakerOpen(failures, bThreshold, bNow, last, attempted)

(***************************************************************************)
(* Throttle: claims                                                        *)
(***************************************************************************)

\* C3: in every reachable state 0 <= tokens <= max.
C3_TokensInRange == 0 <= tokens /\ tokens <= tMax

\* the bucket was drained by two concurrent callers and a refill has
\* brought it back to its capacity
C3_Witness ==
    /\ tEvent = "refill"
    /\ tokens = tMax
    /\ tMax >= 2
    /\ spanAdmitted >= 2

\* what one step may do to the bucket
AdmissionStep ==
    /\ (tEvent' = "admit") => (tokens >= 1 /\ tokens' = tokens - 1)
    /\ (tEvent' \notin {"admit", "refill"}) => (tokens' = tokens)
    /\ (tokens = 0 /\ tEvent' \in {"admit", "limited"})
          => (/\ tEvent' = "limited"
              /\ spanAdmitted' = spanAdmitted
              /\ ~tBusy')

\* C4: the calls admitted during any span that holds k refills number at
\* most max + k*refill; an admitted call takes exactly one token, so no two
\* callers are admitted on the same token; a call that finds the bucket
\* empty is turned away without entering the wrapped operation.
C4_AdmissionBound ==
    /\ [](spanAdmitted <= tMax + spanTicks * tRefill)
    /\ [][AdmissionStep]_vars

\* a span in which a refill let one more call in than the capacity alone
C4_Witness ==
    /\ tEvent = "admit"
    /\ spanTicks >= 1
    /\ spanAdmitted = tMax + 1

\* C5: a call made with a context that is already cancelled returns the
\* context's error, does not enter the wrapped operation and leaves the
\* token count unchanged.
C5_CancelledCallRejected ==
    [][(tLastCtx' # 0 /\ tLastCtx' \in cancelled)
          => (/\ tEvent' = "ctxerr"
              /\ tokens' = tokens
              /\ tWaiting' = tWaiting
              /\ tBusy' = tBusy
              /\ spanAdmitted' = spanAdmitted)]_vars

\* a cancelled call was turned away while tokens were there to take
C5_Witness == tEvent = "ctxerr" /\ tokens >= 1 /\ tLastCtx \in cancelled

\* C6: however many callers make their first call concurrently, the refill
\* loop is started exactly once, so at most one refill loop is ever live.
C6_OneRefillLoop ==
    /\ loopsStarted <= 1
    /\ (loopsStarted = 1) = onceDone
    /\ InCall > 0 => loopsStarted = 1

\* every caller is inside its first call at once and one loop runs
C6_Witness ==
    /\ tWaiting = NumCallers
    /\ loopsStarted = 1
    /\ loop = "select"

\* a caller that waits at line 52 can take its admission decision now
CanDecide == ENABLED (ThrottleLimited \/ ThrottleAdmit)

\* C18: while an admitted call is inside the wrapped operation, a caller
\* that waits for its admission decision can take it without waiting for
\* the operation to return.
C18_AdmissionNotBlocked == (tBusy /\ tWaiting > 0) => CanDecide

\* what the code does instead: no admission decision is taken while a call
\* is inside the wrapped operation
AdmissionWaitsForOperation == [][tBusy => tEvent' \notin {"admit", "limited"}]_vars

\* the refill goroutine is running and its context is done
LoopCancelled == loop \in {"select", "refill"} /\ loopCtx \in cancelled

\* C19: after the context of the call that started the refill loop is
\* cancelled, an empty bucket with refill > 0 is refilled at a later tick.
C19_RefillSurvivesCancel ==
    (loopCtx \in cancelled /\ tokens = 0 /\ tRefill > 0 /\ tMax > 0) ~> (tokens > 0)

\* once the refill goroutine has returned the bucket never grows
NoRefillAfterStop == [][loop = "stopped" => tokens' <= tokens]_vars

\* the refill goroutine returns once its context is done
LoopTerminates == LoopCancelled ~> (loop = "stopped")

\* C20: once the context that governs the refill loop is done the loop
\* terminates, whatever the callers do, a caller that is still inside the
\* wrapped operation included, and after that tokens never grows.
C20_LoopStopsAfterCancel == LoopTerminates /\ NoRefillAfterStop

(***************************************************************************)
(* DebounceFirst: claims                                                   *)
(***************************************************************************)
RECURSIVE LastExecBefore(_)
\* the last call before the i-th that entered the wrapped operation (0: none)
LastExecBefore(i) ==
    IF i <= 1 THEN 0
    ELSE IF dfCalls[i - 1].exec THEN i - 1
    ELSE LastExecBefore(i - 1)

\* C7: a call that arrives strictly before the next-allowed timestamp (the
\* return time of the last executing call plus window) returns exactly the
\* pair cached by that call and does not enter the wrapped operation; a call
\* that arrives at or after it enters the operation, replaces the cache and
\* sets the next-allowed timestamp to its own return time plus window.
C7_WindowDecides ==
    /\ \A i \in 1..Len(dfCalls) :
          LET j == LastExecBefore(i)
          IN  IF j # 0 /\ dfCalls[i].at < dfCalls[j].ret + dfWindow
              THEN ~dfCalls[i].exec /\ dfCalls[i].res = dfCalls[j].res
              ELSE dfCalls[i].exec
    /\ LET k == LastExecBefore(Len(dfCalls) + 1)
       IN  k # 0 => /\ dfResult = dfCalls[k].res
                    /\ dfThreshold = dfCalls[k].ret + dfWindow

\* an executing call, a suppressed call inside its window and, the window
\* over, an executing call that replaced the cache
C7_Witness ==
    /\ Len(dfCalls) = 3
    /\ dfCalls[1].exec
    /\ ~dfCalls[2].exec
    /\ dfCalls[3].exec
    /\ dfCalls[3].res # dfCalls[1].res
    /\ dfResult = dfCalls[3].res

\* C8 as stated: of any two calls separated by less than window, the second
\* returns the pair the first returned and does not enter the wrapped
\* operation.
C8_AnyTwoCalls ==
    \A i, j \in 1..Len(dfCalls) :
        (i < j /\ dfCalls[j].at - dfCalls[i].at < dfWindow)
            => (~dfCalls[j].exec /\ dfCalls[j].res = dfCalls[i].res)

\* C8, amended: of any two calls separated by less than window, the first of
\* which entered the wrapped operation, the second returns the pair cached
\* by the first and does not enter the wrapped operation again.
C8_AfterExecutingCall ==
    \A i, j \in 1..Len(dfCalls) :
        (i < j /\ dfCalls[i].exec /\ dfCalls[j].at - dfCalls[i].at < dfWindow)
            => (~dfCalls[j].exec /\ dfCalls[j].res = dfCalls[i].res)

\* a call made one second after an executing call, inside the window, got
\* the cached error of that call
C8_Witness ==
    \E i, j \in 1..Len(dfCalls) :
        /\ i < j
        /\ dfCalls[i].exec
        /\ dfCalls[j].at = dfCalls[i].at + 1
        /\ dfCalls[j].at - dfCalls[i].at < dfWindow
        /\ ~dfCalls[j].exec
        /\ dfCalls[j].res = <<"b", "err">>

(***************************************************************************)
(* DebounceFirstContext: claims                                            *)
(***************************************************************************)

\* the invocations of the wrapped operation that are in flight with a
\* context that is not done
LiveInvocations == {n \in CallIds : dcPc[n] = "running" /\ dcCtxUsed[n] \notin dcCancelled}

\* C9: in every reachable state at most one invocation of the wrapped
\* operation is in flight with a context that has not been cancelled.
C9_OneLiveInvocation == Cardinality(LiveInvocations) <= 1

(***************************************************************************)
(* DebounceLast: claims                                                    *)
(***************************************************************************)

\* the timer function of call n has entered the wrapped operation
Invoked(n) == dlTimerState[n] \in {"running", "done"}

\* call n is the last call of its burst: no call followed it within window
EndsBurst(n) == n = dlCalls \/ dlAt[n + 1] - dlAt[n] >= dlWindow

\* Only the timer of the last call of a burst enters the wrapped operation,
\* and a timer enters it once: a burst invokes the operation at most once.
BurstInvokesAtMostOnce == \A n \in 1..dlCalls : Invoked(n) => EndsBurst(n)

\* C10: a burst of calls, each less than window after the previous one,
\* invokes the wrapped operation at most once, and that invocation uses the
\* context derived from the last call of the burst.
C10_BurstUsesLastContext ==
    \A n \in 1..dlCalls : Invoked(n) => (EndsBurst(n) /\ dlCtxUsed[n] = n)

\* call n returns in this step
DLReturns(n) == dlPc[n] = "select" /\ dlPc'[n] = "returned"

\* a call that a later call has superseded returns the cancellation error
\* of its context
SupersededReturnStep ==
    \A n \in CallIds : (DLReturns(n) /\ n < dlCalls) => dlRet'[n] = "ctxerr"

\* a call that no later call has superseded returns the result of its
\* scheduled execution, or the error of its own context once that is done
LastReturnStep ==
    \A n \in CallIds :
        (DLReturns(n) /\ n = dlCalls)
            => \/ dlRet'[n] = "result" /\ dlTimerState[n] = "done"
               \/ dlRet'[n] = "ctxerr" /\ n \in dlCancelled

\* a superseded call does not block for ever
SupersededReturns ==
    \A n \in CallIds :
        (n < dlCalls /\ dlPc[n] # "returned") ~> (dlPc[n] = "returned")

\* C21: under every interleaving a call superseded by a later call returns
\* at last, with the cancellation error of its own derived context and
\* never with a result of the operation; a call that is not superseded
\* returns only when its scheduled execution completed or its own context
\* is cancelled.
C21_SupersededObservesCancel ==
    /\ [][SupersededReturnStep /\ LastReturnStep]_vars
    /\ SupersededReturns

(***************************************************************************)
(* Retry: claims                                                           *)
(***************************************************************************)
AlwaysFails == \A i \in 1..(rMax + 1) : rPlan[i] = "err"

\* the operation fails on its first k invocations and succeeds on the next
FailsThenSucceeds(k) ==
    /\ \A i \in 1..k : rPlan[i] = "err"
    /\ rPlan[k + 1] = "nil"

\* C11: a call on an operation that fails on every invocation, its context
\* live, returns after exactly maxRetries+1 invocations, with the response
\* and error of the last one.
C11_FailingOpExhaustsBudget ==
    (rPc = "returned" /\ AlwaysFails /\ ~rCancelled)
        => (rInvoked = rMax + 1 /\ rRet = <<rMax + 1, "err">>)

\* the half of C11 that the loop keeps: what is returned is the response and
\* error of the last invocation made
ReturnsLastInvocation == rPc = "returned" => rRet = rLast

\* C12: a call on an operation that fails on its first k invocations,
\* 0 < k <= maxRetries, and then succeeds, its context live, returns the
\* successful response with a nil error.
C12_SucceedsAfterFailures ==
    \A k \in 1..MaxRetries :
        (rPc = "returned" /\ k <= rMax /\ FailsThenSucceeds(k) /\ ~rCancelled)
            => rRet = <<k + 1, "nil">>

\* no invocation of the operation is begun once the context is done
NoInvocationAfterCancel == rLate = 0

\* C13: once the context is cancelled during the call, no further invocation
\* of the operation is begun, and the call returns the cancellation error.
C13_CancelStopsRetry ==
    /\ []NoInvocationAfterCancel
    /\ []((rPc = "returned" /\ rCancelled) => rRet[2] = "ctxerr")

\* no invocation is begun when the last one returned a nil error
NoInvocationAfterSuccess ==
    [][(rPc = "got" /\ rLast[2] = "nil") => rInvoked' = rInvoked]_vars

\* a call whose first invocation succeeded made exactly one invocation
FirstSuccessInvokesOnce ==
    (rPc = "returned" /\ rPlan[1] = "nil" /\ ~rCancelled) => rInvoked = 1

\* C22: the operation is never invoked again after an invocation that
\* succeeded; when the first invocation succeeds the call invokes the
\* operation exactly once, for every maxRetries >= 0.
C22_NoRetryAfterSuccess == NoInvocationAfterSuccess /\ []FirstSuccessInvokesOnce

(***************************************************************************)
(* Timeout: claims                                                         *)
(***************************************************************************)
Finished == toWorker \in {"posting", "done"}

\* fn(arg) returned no later than the context became done (T <= D)
InTime == Finished /\ (toExpired => toT <= toD)

\* the context became done before fn(arg) returned (T > D)
TooLate == toExpired /\ (Finished => toT > toD)

\* C14: a call of Timeout returns what fn returned whenever T <= D, and
\* "" with the context's error whenever T > D, a context that is done
\* already at the call included.
C14_DeadlineDecides ==
    (~toPrecheck /\ toPc = "returned")
        => /\ InTime => toRet = toRes
           /\ TooLate => toRet = CtxError

\* what the select of Timeout does keep: a result is returned only after
\* fn returned it, the context's error only after the context became done
SelectTakesWhatIsReady ==
    toPc = "returned"
        => \/ toRet = CtxError /\ toExpired
           \/ toRet = toRes /\ Finished

\* C15: a call of TimeoutWithPrecheck whose context is done already returns
\* the context's error and starts no goroutine; the goroutine is started
\* only by a call whose context was live at the precheck.
C15_PrecheckStartsNothing ==
    toPrecheck
        => /\ (toPc = "returned" /\ ~toLive) => (toRet = CtxError /\ toWorker = "none")
           /\ toWorker # "none" => toLive

\* C15 witness: the context was done at the call and the call has returned
C15_Witness ==
    /\ toPrecheck
    /\ toPc = "returned"
    /\ ~toLive
    /\ toExpired
    /\ toRet = CtxError
    /\ toWorker = "none"

\* the send of the worker can complete at once
PostNeverBlocked == toWorker = "posting" => ENABLED WorkerPost

\* C23: in both variants, once fn has returned the worker sends its result
\* on ch without blocking and ends, whether the caller takes the result or
\* has returned with the context's error already; at most one value is
\* sent per call.
C23_WorkerAlwaysPosts ==
    /\ []PostNeverBlocked
    /\ [](toPosts <= 1)
    /\ (toWorker = "posting") ~> (toWorker = "done")

\* C23 witness: the caller returned the context's error, then the worker
\* sent its result and ended; the value stays in the buffer
C23_Witness ==
    /\ toPc = "returned"
    /\ toRet = CtxError
    /\ toWorker = "done"
    /\ toPosts = 1
    /\ toCh = <<toRes>>

(***************************************************************************)
(* Funnel: claims                                                          *)
(***************************************************************************)
\* every source is closed and its values are drained, and no goroutine of
\* the call has a step left
Drained ==
    /\ fCalled
    /\ \A i \in Active : fSrcClosed[i] /\ fFwd[i] = "done" /\ fCloser[i] # "wait"

\* dest is never closed a second time
NoSecondClose == fCloses <= 1

\* once everything is drained dest has been closed
ClosedWhenDrained == Drained => fDestClosed

\* every value sent on a source went to dest exactly once, in order, and
\* before dest was closed
DeliveredOnce ==
    /\ \A i \in Sources :
           /\ Len(fOut[i]) <= fSent[i]
           /\ \A k \in 1..Len(fOut[i]) : fOut[i][k] = k
    /\ fDestClosed => \A i \in Sources : Len(fOut[i]) = fPlan[i]

\* C16: for zero or more sources, once every source is closed and drained,
\* dest is closed exactly once, and every value sent on a source went to
\* dest exactly once before that close.
C16_DestClosedExactlyOnce ==
    /\ NoSecondClose
    /\ ClosedWhenDrained
    /\ DeliveredOnce

====
